---- MODULE Spec2Model ----
(***************************************************************************)
(* The two analysis scripts of ML/30, analyze_detailed.py and              *)
(* analyze_performance.py, as one state machine over the same CSV file.    *)
(*                                                                         *)
(* Numbers: every float the scripts parse is held as an integer number of  *)
(* ten-thousandths (0.55 is 5500, 10 is 100000).  Quotients they compute   *)
(* (spread / price, means, the variance) are exact fractions <<n, d>> in   *)
(* lowest terms with d > 0, in units of one.                               *)
(*                                                                         *)
(* Python objects: the dict built while row k is processed lives at        *)
(* address k; the lists hold addresses, so a dict that is in two lists is  *)
(* one object, as in the source.                                           *)
(***************************************************************************)
EXTENDS Integers, Sequences, FiniteSets, TLC

\* The longest CSV file (data lines) the model reads.
MaxRows == 2

VARIABLES
    rows,               \* list(csv.DictReader(f)): the dict of every data line
    pcD,                \* analyze_predictions_detailed: where it stands
    excD,               \* the exception that ended it, NoExc while there is none
    i,                  \* rows the ingest loop has consumed
    pred,               \* address -> pred_data dict
    all_predictions,    \* list of addresses
    rows_with_returns,  \* list of addresses (the resolved records)
    market,             \* the MARKET MOVEMENT section, <<>> when not printed
    components,         \* the MODEL COMPONENT PERFORMANCE section
    t,                  \* resolved records the trading loop has consumed
    trades,             \* list of trade dicts
    summary,            \* the trading summary, <<>> when not printed
    regimes,            \* the MARKET REGIME ANALYSIS lines printed
    pcP,                \* analyze_predictions: where it stands
    excP,               \* the exception that ended it
    p_rows_with_returns,\* analyze_predictions' filtered rows (row numbers)
    j,                  \* filtered rows its parse loop has consumed
    predictions,        \* list of addresses of its prediction dicts
    ppred,              \* address -> prediction dict
    bins,               \* defaultdict(list): bin index -> list of addresses
    calibration,        \* the CALIBRATION ANALYSIS lines printed
    perf                \* the other sections analyze_predictions printed

varsD == <<pcD, excD, i, pred, all_predictions, rows_with_returns, market,
           components, t, trades, summary, regimes>>
varsP == <<pcP, excP, p_rows_with_returns, j, predictions, ppred, bins,
           calibration, perf>>
vars == <<rows, varsD, varsP>>

----------------------------------------------------------------------------
\* Sequences and sets

Range(s) == {s[k] : k \in 1..Len(s)}

SeqsUpTo(S, n) == UNION {[1..k -> S] : k \in 0..n}

Min(S) == CHOOSE x \in S : \A y \in S : x <= y

Max(S) == CHOOSE x \in S : \A y \in S : x >= y

RECURSIVE SumOver(_, _)
SumOver(f, S) ==
    IF S = {} THEN 0
    ELSE LET x == CHOOSE y \in S : TRUE IN f[x] + SumOver(f, S \ {x})

\* [x for x in s if keep[x]]
RECURSIVE Filter(_, _)
Filter(s, keep) ==
    IF s = <<>> THEN <<>>
    ELSE IF keep[Head(s)] THEN <<Head(s)>> \o Filter(Tail(s), keep)
         ELSE Filter(Tail(s), keep)

\* sorted(S)
RECURSIVE Sorted(_)
Sorted(S) == IF S = {} THEN <<>> ELSE <<Min(S)>> \o Sorted(S \ {Min(S)})

----------------------------------------------------------------------------
\* Exact fractions

Abs(x) == IF x < 0 THEN -x ELSE x

RECURSIVE Gcd(_, _)
Gcd(a, b) == IF b = 0 THEN a ELSE Gcd(b, a % b)

\* n / d in lowest terms with a positive denominator (d # 0)
Frac(n, d) ==
    LET g == Gcd(Abs(n), Abs(d))
        s == IF d < 0 THEN -1 ELSE 1
    IN <<(s * n) \div g, (s * d) \div g>>

Scale == 10 * 1000

\* a parsed float (ten-thousandths) as a fraction of one
OfFloat(x) == Frac(x, Scale)

\* The sums and products are formed over the least common denominator
\* and after cancelling, so that no intermediate value outgrows the result.
FracAdd(a, b) ==
    LET g == Gcd(a[2], b[2])
    IN Frac(a[1] * (b[2] \div g) + b[1] * (a[2] \div g), (a[2] \div g) * b[2])

FracSub(a, b) == FracAdd(a, <<-b[1], b[2]>>)

FracMul(a, b) ==
    LET g1 == Gcd(Abs(a[1]), b[2])
        g2 == Gcd(Abs(b[1]), a[2])
    IN <<(a[1] \div g1) * (b[1] \div g2), (a[2] \div g2) * (b[2] \div g1)>>

RECURSIVE FracSum(_)
FracSum(s) == IF s = <<>> THEN <<0, 1>> ELSE FracAdd(Head(s), FracSum(Tail(s)))

----------------------------------------------------------------------------
\* The CSV file and csv.DictReader

Columns ==
    << "wall_time_iso", "mid", "p_fused", "p_fused_cal", "p_hcqr", "p_lvp",
       "p_rrf", "ofi_w", "spread", "realized_ret_30s", "realized_up_30s" >>

\* A Python value that is a str or None.
Str(s) == [none |-> FALSE, s |-> s]

None == [none |-> TRUE, s |-> ""]

\* One data line under a header: the dict DictReader yields.  A line shorter
\* than the header leaves the trailing keys at restval, which is None.
DictReader(header, line) ==
    [c \in Range(header) |->
        LET k == CHOOSE n \in 1..Len(header) : header[n] = c
        IN IF k <= Len(line) THEN Str(line[k]) ELSE None]

\* list(reader)
ReadCsv(header, lines) == [k \in 1..Len(lines) |-> DictReader(header, lines[k])]

----------------------------------------------------------------------------
\* float(), int(), str.strip(), dict lookup: a result is [exc, v]

Ok(v) == [exc |-> "none", v |-> v]

Raise(e) == [exc |-> e, v |-> 0]

\* float() on the decimal texts the files hold, in ten-thousandths.
FloatText ==
    ("0" :> 0) @@ ("1" :> 10000) @@ ("1.0" :> 10000) @@ ("2.0" :> 20000)
    @@ ("0.0005" :> 5) @@ ("0.001" :> 10) @@ ("0.002" :> 20) @@ ("0.004" :> 40)
    @@ ("-0.002" :> -20) @@ ("-0.004" :> -40)
    @@ ("-0.05" :> -500) @@ ("0.05" :> 500) @@ ("0.1" :> 1000)
    @@ ("0.29" :> 2900) @@ ("0.3" :> 3000) @@ ("0.4" :> 4000)
    @@ ("0.44" :> 4400) @@ ("0.45" :> 4500) @@ ("0.5" :> 5000)
    @@ ("0.55" :> 5500) @@ ("0.56" :> 5600) @@ ("0.6" :> 6000)
    @@ ("0.99" :> 9900) @@ ("1.5" :> 15000)
    @@ ("-11" :> -110000) @@ ("-10.5" :> -105000) @@ ("-10" :> -100000)
    @@ ("-9.5" :> -95000) @@ ("9.5" :> 95000) @@ ("10" :> 100000)
    @@ ("10.5" :> 105000) @@ ("11" :> 110000)

\* int() on the texts the files hold
IntText == ("0" :> 0) @@ ("1" :> 1)

\* float(x): None is a TypeError, text that is no number a ValueError
float(x) ==
    IF x.none THEN Raise("TypeError")
    ELSE IF x.s \in DOMAIN FloatText THEN Ok(FloatText[x.s])
    ELSE Raise("ValueError")

\* int(x): None is a TypeError, text that is no integer literal a ValueError
int(x) ==
    IF x.none THEN Raise("TypeError")
    ELSE IF x.s \in DOMAIN IntText THEN Ok(IntText[x.s])
    ELSE Raise("ValueError")

\* s.strip(), for the texts of the model
strip(s) == IF s \in {"", " "} THEN "" ELSE s

\* bool(x) of a str or None
Truthy(x) == ~x.none /\ x.s # ""

\* r[col]
Item(r, col) == IF col \in DOMAIN r THEN Ok(r[col]) ELSE Raise("KeyError")

\* float(r[col])
FloatItem(r, col) == IF col \in DOMAIN r THEN float(r[col]) ELSE Raise("KeyError")

\* int(r[col])
IntItem(r, col) == IF col \in DOMAIN r THEN int(r[col]) ELSE Raise("KeyError")

\* the exception that ended a script, with the line it left from
NoExc == [type |-> "none", line |-> 0]

Uncaught(type, line) == [type |-> type, line |-> line]

\* what an except (ValueError, KeyError) clause catches
Caught(e) == e \in {"ValueError", "KeyError"}

----------------------------------------------------------------------------
\* analyze_predictions_detailed: the ingest loop

\* The dict literal of lines 23-33; its items are evaluated in order and the
\* first conversion that fails raises.
BasicData(r) ==
    LET conv ==
            << Item(r, "wall_time_iso"), FloatItem(r, "mid"),
               FloatItem(r, "p_fused"), FloatItem(r, "p_fused_cal"),
               FloatItem(r, "p_hcqr"), FloatItem(r, "p_lvp"),
               FloatItem(r, "p_rrf"), FloatItem(r, "ofi_w"),
               FloatItem(r, "spread") >>
        bad == {k \in 1..Len(conv) : conv[k].exc # "none"}
    IN IF bad # {} THEN Raise(conv[Min(bad)].exc)
       ELSE Ok([timestamp |-> conv[1].v, price |-> conv[2].v,
                p_fused |-> conv[3].v, p_fused_cal |-> conv[4].v,
                p_hcqr |-> conv[5].v, p_lvp |-> conv[6].v,
                p_rrf |-> conv[7].v, ofi |-> conv[8].v,
                spread |-> conv[9].v])

\* the guard of line 37
HasReturn(r) ==
    LET a == Item(r, "realized_ret_30s")
    IN IF a.exc # "none" THEN Raise(a.exc)
       ELSE Ok(Truthy(a.v) /\ Truthy(Str(strip(a.v.s))))

\* The body of the try of lines 21-40 on one row: the exception it ends
\* with, whether pred_data reached all_predictions and rows_with_returns,
\* and pred_data as the body left it.
TryRow(r) ==
    LET b == BasicData(r)
        dropped == [exc |-> b.exc, appended |-> FALSE, resolved |-> FALSE,
                    pred_data |-> <<>>]
    IN IF b.exc # "none" THEN dropped
       ELSE LET has == HasReturn(r)
                ret == FloatItem(r, "realized_ret_30s")
                up == IntItem(r, "realized_up_30s")
                kept == [exc |-> "none", appended |-> TRUE, resolved |-> FALSE,
                         pred_data |-> b.v]
                d1 == b.v @@ [realized_ret |-> ret.v]
                d2 == d1 @@ [realized_up |-> up.v]
            IN IF has.exc # "none" THEN [kept EXCEPT !.exc = has.exc]
               ELSE IF ~has.v THEN kept
               ELSE IF ret.exc # "none" THEN [kept EXCEPT !.exc = ret.exc]
               ELSE IF up.exc # "none"
                    THEN [kept EXCEPT !.exc = up.exc, !.pred_data = d1]
               ELSE [kept EXCEPT !.resolved = TRUE, !.pred_data = d2]

\* lst.insert(0, x) where the source appends
ListInsertFirst(lst, x) == <<x>> \o lst

\* lst.append(x)
ListAppend(lst, x) == Append(lst, x)

\* One iteration of the loop of lines 20-42.  An exception the except
\* clause does not catch leaves the function.
D_IngestRow ==
    /\ pcD = "ingest"
    /\ i < Len(rows)
    /\ LET k == i + 1
           res == TryRow(rows[k])
       IN /\ all_predictions' =
                IF res.appended THEN ListAppend(all_predictions, k)
                ELSE all_predictions
          /\ pred' = IF res.appended THEN pred @@ (k :> res.pred_data) ELSE pred
          /\ rows_with_returns' =
                IF res.resolved THEN ListAppend(rows_with_returns, k)
                ELSE rows_with_returns
          /\ IF res.exc = "none" \/ Caught(res.exc)
             THEN /\ i' = k
                  /\ UNCHANGED <<pcD, excD>>
             ELSE /\ pcD' = "raised"
                  /\ excD' = Uncaught(res.exc, 21)
                  /\ UNCHANGED i
    /\ UNCHANGED <<market, components, t, trades, summary, regimes>>
    /\ UNCHANGED <<rows, varsP>>

----------------------------------------------------------------------------
\* analyze_predictions_detailed: the report sections

Half == 5000

LongThreshold == 5500

ShortThreshold == 4500

HighThreshold == 100000

\* statistics.mean of a non-empty list of fractions
Mean(xs) == FracMul(FracSum(xs), Frac(1, Len(xs)))

\* statistics.variance: the sample (n - 1) variance, two or more values.
\* statistics.stdev is its square root, which is 0 exactly when it is 0.
Variance(xs) ==
    LET m == Mean(xs)
        sq == [k \in 1..Len(xs) |-> FracMul(FracSub(xs[k], m), FracSub(xs[k], m))]
    IN FracMul(FracSum(sq), Frac(1, Len(xs) - 1))

\* the directional rule of lines 68-69 and 122-123
Correct(p, up) == (p > Half /\ up = 1) \/ (p <= Half /\ up = 0)

\* Lines 44-59.  The section is printed for a non-empty all_predictions;
\* the relative change divides by the first price.
D_MarketMovement ==
    /\ pcD = "ingest"
    /\ i = Len(rows)
    /\ IF all_predictions = <<>>
       THEN /\ pcD' = "components"
            /\ UNCHANGED <<excD, market>>
       ELSE LET prices == [k \in 1..Len(all_predictions) |->
                              pred[all_predictions[k]].price]
                start_price == prices[1]
                end_price == prices[Len(prices)]
            IN IF start_price = 0
               THEN /\ pcD' = "raised"
                    /\ excD' = Uncaught("ZeroDivisionError", 53)
                    /\ UNCHANGED market
               ELSE /\ market' =
                          [start_price |-> start_price,
                           end_price |-> end_price,
                           price_change |-> Frac(end_price - start_price, start_price),
                           lo |-> Min(Range(prices)),
                           hi |-> Max(Range(prices))]
                    /\ pcD' = "components"
                    /\ UNCHANGED excD
    /\ UNCHANGED <<i, pred, all_predictions, rows_with_returns, components, t,
                   trades, summary, regimes>>
    /\ UNCHANGED <<rows, varsP>>

\* Lines 61-75.  Everything from here on is inside "if rows_with_returns:".
D_ComponentPerformance ==
    /\ pcD = "components"
    /\ IF rows_with_returns = <<>>
       THEN /\ pcD' = "done"
            /\ UNCHANGED components
       ELSE LET n == Len(rows_with_returns)
                rec(k) == pred[rows_with_returns[k]]
                line(comp) ==
                    LET correct == Cardinality({k \in 1..n :
                                       Correct(rec(k)[comp], rec(k).realized_up)})
                        sq == [k \in 1..n |->
                                  (rec(k)[comp] - Scale * rec(k).realized_up)
                                  * (rec(k)[comp] - Scale * rec(k).realized_up)]
                    IN [accuracy |-> Frac(correct, n),
                        brier |-> Frac(SumOver(sq, 1..n), Scale * Scale * n)]
            IN /\ components' =
                     [comp \in {"p_hcqr", "p_lvp", "p_rrf", "p_fused_cal"} |->
                         line(comp)]
               /\ pcD' = "trading"
    /\ UNCHANGED <<excD, i, pred, all_predictions, rows_with_returns, market, t,
                   trades, summary, regimes>>
    /\ UNCHANGED <<rows, varsP>>

\* the test of line 83 with >= where the source has >
LongSignalInclusive(p) == p >= LongThreshold

\* the tests of lines 83 and 90
LongSignal(p) == p > LongThreshold

ShortSignal(p) == p < ShortThreshold

\* 'return' of a long trade (line 87) and of a short trade (line 94)
LongReturn(realized_ret) == realized_ret

ShortReturn(realized_ret) == -realized_ret

\* One iteration of the loop of lines 82-96; spread / price raises on a
\* price of 0.
D_TradeStep ==
    /\ pcD = "trading"
    /\ t < Len(rows_with_returns)
    /\ LET p == pred[rows_with_returns[t + 1]]
           long == LongSignal(p.p_fused_cal)
           short == ~long /\ ShortSignal(p.p_fused_cal)
       IN IF (long \/ short) /\ p.price = 0
          THEN /\ pcD' = "raised"
               /\ excD' = Uncaught("ZeroDivisionError", IF long THEN 88 ELSE 95)
               /\ UNCHANGED <<t, trades>>
          ELSE /\ trades' =
                     IF long
                     THEN ListAppend(trades,
                              [direction |-> "long",
                               confidence |-> p.p_fused_cal,
                               return |-> LongReturn(p.realized_ret),
                               spread_cost |-> Frac(p.spread, p.price)])
                     ELSE IF short
                     THEN ListAppend(trades,
                              [direction |-> "short",
                               confidence |-> Scale - p.p_fused_cal,
                               return |-> ShortReturn(p.realized_ret),
                               spread_cost |-> Frac(p.spread, p.price)])
                     ELSE trades
               /\ t' = t + 1
               /\ UNCHANGED <<pcD, excD>>
    /\ UNCHANGED <<i, pred, all_predictions, rows_with_returns, market,
                   components, summary, regimes>>
    /\ UNCHANGED <<rows, varsP>>

\* net_returns of line 101
NetReturns(trs) ==
    [k \in 1..Len(trs) |-> FracSub(OfFloat(trs[k].return), trs[k].spread_cost)]

\* Line 108: mean / stdev with more than one trade, else 0.  A ratio
\* m / sqrt(v) is held as [mean |-> m, variance |-> v], the literal 0 as
\* 0 / sqrt(1); a stdev of 0 makes the division raise.
Sharpe(net_returns) ==
    IF Len(net_returns) > 1
    THEN IF Variance(net_returns) = <<0, 1>>
         THEN Raise("ZeroDivisionError")
         ELSE Ok([mean |-> Mean(net_returns), variance |-> Variance(net_returns)])
    ELSE Ok([mean |-> <<0, 1>>, variance |-> <<1, 1>>])

\* Lines 98-108.
D_TradingSummary ==
    /\ pcD = "trading"
    /\ t = Len(rows_with_returns)
    /\ IF trades = <<>>
       THEN /\ pcD' = "regimes"
            /\ UNCHANGED <<excD, summary>>
       ELSE LET gross_returns == [k \in 1..Len(trades) |-> trades[k].return]
                costs == [k \in 1..Len(trades) |-> trades[k].spread_cost]
                net_returns == NetReturns(trades)
                sharpe == Sharpe(net_returns)
            IN IF sharpe.exc # "none"
               THEN /\ pcD' = "raised"
                    /\ excD' = Uncaught(sharpe.exc, 108)
                    /\ UNCHANGED summary
               ELSE /\ summary' =
                         [n |-> Len(trades),
                          win_rate |-> Frac(Cardinality({k \in 1..Len(trades) :
                                               gross_returns[k] > 0}), Len(trades)),
                          avg_gross |-> Frac(SumOver(gross_returns, 1..Len(trades)),
                                             Scale * Len(trades)),
                          avg_cost |-> Mean(costs),
                          avg_net |-> Mean(net_returns),
                          sharpe |-> sharpe.v]
                    /\ pcD' = "regimes"
                    /\ UNCHANGED excD
    /\ UNCHANGED <<i, pred, all_predictions, rows_with_returns, market,
                   components, t, trades, regimes>>
    /\ UNCHANGED <<rows, varsP>>

\* the three list comprehensions of lines 113-115
HighBuying(ofi) == ofi > HighThreshold

HighSelling(ofi) == ofi < -HighThreshold

\* the neutral test of line 115 with < where the source has <=
NeutralExclusive(ofi) == -HighThreshold < ofi /\ ofi < HighThreshold

Neutral(ofi) == -HighThreshold <= ofi /\ ofi <= HighThreshold

\* Lines 110-125: one line per non-empty regime, in the order of the list.
D_RegimeAnalysis ==
    /\ pcD = "regimes"
    /\ LET ofi == [k \in Range(rows_with_returns) |-> pred[k].ofi]
           high_buying ==
               Filter(rows_with_returns, [k \in DOMAIN ofi |-> HighBuying(ofi[k])])
           high_selling ==
               Filter(rows_with_returns, [k \in DOMAIN ofi |-> HighSelling(ofi[k])])
           neutral ==
               Filter(rows_with_returns, [k \in DOMAIN ofi |-> Neutral(ofi[k])])
           line(regime_name, regime_data) ==
               IF regime_data = <<>> THEN <<>>
               ELSE << [regime_name |-> regime_name,
                        regime_data |-> regime_data,
                        n |-> Len(regime_data),
                        accuracy |->
                            Frac(Cardinality({k \in Range(regime_data) :
                                     Correct(pred[k].p_fused_cal, pred[k].realized_up)}),
                                 Len(regime_data)),
                        avg_ret |->
                            Frac(SumOver([k \in Range(regime_data) |->
                                             pred[k].realized_ret],
                                         Range(regime_data)),
                                 Scale * Len(regime_data))] >>
       IN regimes' = line("High Buying", high_buying)
                     \o line("High Selling", high_selling)
                     \o line("Neutral", neutral)
    /\ pcD' = "done"
    /\ UNCHANGED <<excD, i, pred, all_predictions, rows_with_returns, market,
                   components, t, trades, summary>>
    /\ UNCHANGED <<rows, varsP>>

----------------------------------------------------------------------------
\* analyze_predictions

NumBins == 10

\* int(x / d) of Python: truncation toward zero
Trunc(x, d) == IF x >= 0 THEN x \div d ELSE -((-x) \div d)

\* bin_idx of line 51: int(p_cal * 10)
BinIdx(p_cal) == Trunc(p_cal * NumBins, Scale)

\* The list comprehension of line 16, then the early return of lines 21-23.
\* The script is run once analyze_predictions_detailed has ended.
P_Filter ==
    /\ pcP = "filter"
    /\ pcD \in {"done", "raised"}
    /\ LET has == [k \in 1..Len(rows) |-> HasReturn(rows[k])]
           bad == {k \in 1..Len(rows) : has[k].exc # "none"}
           kept == Filter([k \in 1..Len(rows) |-> k],
                          [k \in 1..Len(rows) |-> has[k].v])
       IN IF bad # {}
          THEN /\ pcP' = "raised"
               /\ excP' = Uncaught(has[Min(bad)].exc, 16)
               /\ UNCHANGED p_rows_with_returns
          ELSE /\ p_rows_with_returns' = kept
               /\ pcP' = IF kept = <<>> THEN "done" ELSE "parse"
               /\ UNCHANGED excP
    /\ UNCHANGED <<j, predictions, ppred, bins, calibration, perf>>
    /\ UNCHANGED <<rows, varsD>>

\* The body of the try of lines 28-41 on one row; spread / 0.001 is the
\* spread in ticks.
TryPrediction(r) ==
    LET conv ==
            << FloatItem(r, "p_fused_cal"), FloatItem(r, "realized_ret_30s"),
               IntItem(r, "realized_up_30s"), FloatItem(r, "spread") >>
        bad == {k \in 1..Len(conv) : conv[k].exc # "none"}
    IN IF bad # {} THEN Raise(conv[Min(bad)].exc)
       ELSE Ok([p_cal |-> conv[1].v,
                predicted_up |-> IF conv[1].v > Half THEN 1 ELSE 0,
                realized_ret |-> conv[2].v,
                realized_up |-> conv[3].v,
                correct |-> Correct(conv[1].v, conv[3].v),
                spread_ticks |-> Frac(conv[4].v, Scale \div 1000)])

\* One iteration of the loop of lines 27-43.
P_ParseRow ==
    /\ pcP = "parse"
    /\ j < Len(p_rows_with_returns)
    /\ LET k == p_rows_with_returns[j + 1]
           res == TryPrediction(rows[k])
       IN IF res.exc = "none"
          THEN /\ predictions' = ListAppend(predictions, k)
               /\ ppred' = ppred @@ (k :> res.v)
               /\ j' = j + 1
               /\ UNCHANGED <<pcP, excP>>
          ELSE IF Caught(res.exc)
          THEN /\ j' = j + 1
               /\ UNCHANGED <<pcP, excP, predictions, ppred>>
          ELSE /\ pcP' = "raised"
               /\ excP' = Uncaught(res.exc, 28)
               /\ UNCHANGED <<j, predictions, ppred>>
    /\ UNCHANGED <<p_rows_with_returns, bins, calibration, perf>>
    /\ UNCHANGED <<rows, varsD>>

\* Line 46: the accuracy over predictions, whatever its length.
P_Accuracy ==
    /\ pcP = "parse"
    /\ j = Len(p_rows_with_returns)
    /\ IF predictions = <<>>
       THEN /\ pcP' = "raised"
            /\ excP' = Uncaught("ZeroDivisionError", 46)
            /\ UNCHANGED perf
       ELSE /\ perf' = perf @@
                  [accuracy |->
                      Frac(Cardinality({k \in Range(predictions) : ppred[k].correct}),
                           Len(predictions))]
            /\ pcP' = "binning"
            /\ UNCHANGED excP
    /\ UNCHANGED <<p_rows_with_returns, j, predictions, ppred, bins, calibration>>
    /\ UNCHANGED <<rows, varsD>>

\* The loop of lines 49-52: bins[bin_idx].append(p) on a defaultdict(list).
RECURSIVE FillBins(_, _, _)
FillBins(ps, data, b) ==
    IF ps = <<>> THEN b
    ELSE LET bin_idx == BinIdx(data[Head(ps)].p_cal)
             old == IF bin_idx \in DOMAIN b THEN b[bin_idx] ELSE <<>>
         IN FillBins(Tail(ps), data,
                     [x \in DOMAIN b \cup {bin_idx} |->
                         IF x = bin_idx THEN ListAppend(old, Head(ps)) ELSE b[x]])

P_Binning ==
    /\ pcP = "binning"
    /\ bins' = FillBins(predictions, ppred, bins)
    /\ pcP' = "returns"
    /\ UNCHANGED <<excP, p_rows_with_returns, j, predictions, ppred, calibration,
                   perf>>
    /\ UNCHANGED <<rows, varsD>>

\* sorted(xs) of a list of integers
RECURSIVE SortedList(_)
SortedList(xs) ==
    IF xs = <<>> THEN <<>>
    ELSE LET m == Min(Range(xs))
             k == CHOOSE n \in 1..Len(xs) : xs[n] = m
         IN <<m>> \o SortedList(SubSeq(xs, 1, k - 1) \o SubSeq(xs, k + 1, Len(xs)))

\* statistics.median of a non-empty list of parsed floats
Median(xs) ==
    LET s == SortedList(xs)
        n == Len(s)
    IN IF n % 2 = 1 THEN OfFloat(s[(n + 1) \div 2])
       ELSE Frac(s[n \div 2] + s[n \div 2 + 1], 2 * Scale)

\* Lines 54-67; statistics.stdev needs two data points.
P_Returns ==
    /\ pcP = "returns"
    /\ LET all_returns == [k \in 1..Len(predictions) |->
                              ppred[predictions[k]].realized_ret]
           fr == [k \in 1..Len(predictions) |-> OfFloat(all_returns[k])]
       IN IF Len(all_returns) < 2
          THEN /\ pcP' = "raised"
               /\ excP' = Uncaught("StatisticsError", 66)
               /\ UNCHANGED perf
          ELSE /\ perf' = perf @@
                     [mean |-> Mean(fr),
                      median |-> Median(all_returns),
                      variance |-> Variance(fr),
                      win_rate |-> Frac(Cardinality({k \in 1..Len(all_returns) :
                                           all_returns[k] > 0}), Len(all_returns))]
               /\ pcP' = "calibration"
               /\ UNCHANGED excP
    /\ UNCHANGED <<p_rows_with_returns, j, predictions, ppred, bins, calibration>>
    /\ UNCHANGED <<rows, varsD>>

\* The table lines of lines 73-78 for a bins dict.
RECURSIVE CalibrationLines(_, _, _)
CalibrationLines(keys, b, data) ==
    IF keys = <<>> THEN <<>>
    ELSE LET bin_idx == Head(keys)
             bin_data == b[bin_idx]
             rest == CalibrationLines(Tail(keys), b, data)
         IN IF Len(bin_data) > 0
            THEN << [bin_idx |-> bin_idx,
                     count |-> Len(bin_data),
                     actual_up |->
                         Frac(Cardinality({k \in 1..Len(bin_data) :
                                  data[bin_data[k]].realized_up = 1}), Len(bin_data)),
                     expected_up |-> bin_idx * 1000 + 500] >> \o rest
            ELSE rest

\* sorted(bins.keys(), reverse=True) where the source sorts ascending
BinOrderDescending(b) ==
    LET up == Sorted(DOMAIN b) IN [k \in 1..Len(up) |-> up[Len(up) + 1 - k]]

\* the order of line 73
BinOrder(b) == Sorted(DOMAIN b)

P_Calibration ==
    /\ pcP = "calibration"
    /\ calibration' = CalibrationLines(BinOrder(bins), bins, ppred)
    /\ pcP' = "rest"
    /\ UNCHANGED <<excP, p_rows_with_returns, j, predictions, ppred, bins, perf>>
    /\ UNCHANGED <<rows, varsD>>

\* Lines 80-112: edge, spread and confidence buckets.
P_Rest ==
    /\ pcP = "rest"
    /\ LET p_cal == [k \in Range(predictions) |-> ppred[k].p_cal]
           sel(keep(_)) == Filter(predictions, [k \in DOMAIN p_cal |-> keep(p_cal[k])])
           strong(p) == p > 6000 \/ p < 4000
           very_low(p) == p < 3000
           low(p) == 3000 <= p /\ p < 4000
           neutral(p) == 4000 <= p /\ p < 6000
           high(p) == 6000 <= p /\ p < 7000
           very_high(p) == p >= 7000
           stats(name, data) ==
               IF data = <<>> THEN <<>>
               ELSE << [name |-> name,
                        n |-> Len(data),
                        accuracy |->
                            Frac(Cardinality({k \in Range(data) : ppred[k].correct}),
                                 Len(data)),
                        avg_return |->
                            Frac(SumOver([k \in Range(data) |-> ppred[k].realized_ret],
                                         Range(data)),
                                 Scale * Len(data))] >>
       IN perf' = perf @@
              [strong |-> stats("Strong", sel(strong)),
               avg_spread |->
                   Mean([k \in 1..Len(predictions) |->
                            ppred[predictions[k]].spread_ticks]),
               buckets |-> stats("Very Low", sel(very_low)) \o stats("Low", sel(low))
                           \o stats("Neutral", sel(neutral))
                           \o stats("High", sel(high))
                           \o stats("Very High", sel(very_high))]
    /\ pcP' = "done"
    /\ UNCHANGED <<excP, p_rows_with_returns, j, predictions, ppred, bins,
                   calibration>>
    /\ UNCHANGED <<rows, varsD>>

----------------------------------------------------------------------------
\* The files read

\* A complete, resolved data line; every text of it parses.
BaseLine ==
    [c \in Range(Columns) |->
        CASE c = "wall_time_iso" -> "t"
          [] c = "mid" -> "1.0"
          [] c = "p_fused_cal" -> "0.6"
          [] c = "ofi_w" -> "0"
          [] c = "spread" -> "0.0005"
          [] c = "realized_ret_30s" -> "0.001"
          [] c = "realized_up_30s" -> "1"
          [] OTHER -> "0.5"]

\* BaseLine with the texts of over in their columns
With(over) ==
    [c \in Range(Columns) |-> IF c \in DOMAIN over THEN over[c] ELSE BaseLine[c]]

\* the first n fields of a line, as the file holds them under a header
Fields(header, cells, n) ==
    [k \in 1..(IF n < Len(header) THEN n ELSE Len(header)) |-> cells[header[k]]]

\* a line with every field of the full header
Complete(cells) == Fields(Columns, cells, Len(Columns))

\* the header without one column
Without(col) == Filter(Columns, [c \in Range(Columns) |-> c # col])

\* the state before either script has run, for a file
Start(header, lines) ==
    /\ rows = ReadCsv(header, lines)
    /\ pcD = "ingest"
    /\ excD = NoExc
    /\ i = 0
    /\ pred = <<>>
    /\ all_predictions = <<>>
    /\ rows_with_returns = <<>>
    /\ market = <<>>
    /\ components = <<>>
    /\ t = 0
    /\ trades = <<>>
    /\ summary = <<>>
    /\ regimes = <<>>
    /\ pcP = "filter"
    /\ excP = NoExc
    /\ p_rows_with_returns = <<>>
    /\ j = 0
    /\ predictions = <<>>
    /\ ppred = <<>>
    /\ bins = <<>>
    /\ calibration = <<>>
    /\ perf = <<>>

\* Complete lines with at most one damaged field: blank or no number, a
\* return of one space, a realized_up that is no integer literal.
CompleteLines ==
    {Complete(BaseLine)}
    \cup {Complete(With(c :> s)) : c \in Range(Columns), s \in {"", "abc"}}
    \cup {Complete(With("realized_ret_30s" :> " ")),
          Complete(With("realized_up_30s" :> "1.0"))}

\* lines cut short after 1, 5, 9 and 10 fields
CutLines == {Fields(Columns, BaseLine, n) : n \in {1, 5, 9, 10}}

\* Files of complete, damaged and cut lines under the full header, and files
\* of sound lines under a header that lacks one column.
Init ==
    \/ \E lines \in SeqsUpTo(CompleteLines \cup CutLines, MaxRows) :
          Start(Columns, lines)
    \/ \E col \in Range(Columns) :
          \E lines \in SeqsUpTo(
                 {Fields(Without(col), BaseLine, Len(Columns)),
                  Fields(Without(col), With("p_fused_cal" :> "0.4"), Len(Columns))},
                 MaxRows) :
             Start(Without(col), lines)

\* Files of complete lines under the full header.
InitComplete == \E lines \in SeqsUpTo(CompleteLines, MaxRows) : Start(Columns, lines)

\* Files for the trading simulation: p_fused_cal on, next to and between the
\* two thresholds, gains and losses, two prices and spreads, a price of 0,
\* an unresolved line.
TradingLines ==
    {Complete(With(("p_fused_cal" :> p) @@ ("realized_ret_30s" :> r))) :
        p \in {"0.4", "0.44", "0.45", "0.5", "0.55", "0.56", "0.6"},
        r \in {"0.001", "-0.002"}}
    \cup {Complete(With(("mid" :> "2.0") @@ ("spread" :> "0.001"))),
          Complete(With(("p_fused_cal" :> "0.4") @@ ("realized_ret_30s" :> "-0.002")
                        @@ ("spread" :> "0.001") @@ ("realized_up_30s" :> "0"))),
          Complete(With("mid" :> "0")),
          Complete(With(("mid" :> "0") @@ ("p_fused_cal" :> "0.5"))),
          Complete(With("realized_ret_30s" :> ""))}

InitTrading == \E lines \in SeqsUpTo(TradingLines, MaxRows) : Start(Columns, lines)

\* Files for the calibration table: p_fused_cal at the ends of [0, 1], on
\* and next to bin edges, outside [0, 1]; both outcomes; a line that is
\* dropped and an unresolved line.
CalibrationFileLines ==
    {Complete(With(("p_fused_cal" :> p) @@ ("realized_up_30s" :> u))) :
        p \in {"0", "0.05", "0.1", "0.29", "0.3", "0.5", "0.99", "1.0"},
        u \in {"0", "1"}}
    \cup {Complete(With("p_fused_cal" :> "-0.05")),
          Complete(With("p_fused_cal" :> "1.5")),
          Complete(With("p_fused_cal" :> "abc")),
          Complete(With("realized_ret_30s" :> ""))}

InitCalibration ==
    \E lines \in SeqsUpTo(CalibrationFileLines, MaxRows) : Start(Columns, lines)

\* Files for the regime analysis: ofi_w on, next to and far from +-10, with
\* a p_fused_cal that gives no trade and one that gives a long trade.
RegimeLines ==
    {Complete(With(("ofi_w" :> o) @@ ("p_fused_cal" :> p))) :
        o \in {"-11", "-10.5", "-10", "-9.5", "0", "9.5", "10", "10.5", "11"},
        p \in {"0.5", "0.6"}}
    \cup {Complete(With("ofi_w" :> "abc")),
          Complete(With("realized_ret_30s" :> ""))}

InitRegimes == \E lines \in SeqsUpTo(RegimeLines, MaxRows) : Start(Columns, lines)

Next ==
    \/ D_IngestRow
    \/ D_MarketMovement
    \/ D_ComponentPerformance
    \/ D_TradeStep
    \/ D_TradingSummary
    \/ D_RegimeAnalysis
    \/ P_Filter
    \/ P_ParseRow
    \/ P_Accuracy
    \/ P_Binning
    \/ P_Returns
    \/ P_Calibration
    \/ P_Rest

Spec == Init /\ [][Next]_vars

SpecComplete == InitComplete /\ [][Next]_vars

SpecTrading == InitTrading /\ [][Next]_vars

SpecCalibration == InitCalibration /\ [][Next]_vars

SpecRegimes == InitRegimes /\ [][Next]_vars

----------------------------------------------------------------------------
\* Properties

\* the columns the dict literal of lines 23-33 reads
Mandatory ==
    {"wall_time_iso", "mid", "p_fused", "p_fused_cal", "p_hcqr", "p_lvp", "p_rrf",
     "ofi_w", "spread"}

\* the text of a field is a decimal number
Numeric(x) == ~x.none /\ x.s \notin {"", " ", "abc"}

\* A mandatory field of row r is bad: its column is absent from the header,
\* its value is absent (the line is shorter than the header), or, for a
\* numeric field, its text is blank or no number.
BadMandatoryField(r) ==
    \E c \in Mandatory :
        \/ c \notin DOMAIN r
        \/ r[c].none
        \/ c # "wall_time_iso" /\ ~Numeric(r[c])

\* realized_ret_30s and realized_up_30s are both present, non-blank and parse
BothOutcomesParse(r) ==
    /\ {"realized_ret_30s", "realized_up_30s"} \subseteq DOMAIN r
    /\ Numeric(r["realized_ret_30s"])
    /\ ~r["realized_up_30s"].none
    /\ r["realized_up_30s"].s \in {"0", "1"}

\* the ingest loop of analyze_predictions_detailed was left by an exception
\* while it processed row k
IngestRaisedAt(k) == pcD = "raised" /\ excD.line = 21 /\ i = k - 1

\* the ingest loop of analyze_predictions_detailed has ended normally
Ingested == pcD # "ingest" /\ ~(pcD = "raised" /\ excD.line = 21)

\* C1: a row with a bad mandatory field is skipped silently: it is in neither
\* all_predictions nor rows_with_returns and no exception leaves the ingest
\* loop at it (so the rows after it are processed).  Stated for the numeric
\* fields in each of the four ways and for a timestamp whose column or value
\* is absent.
C1_BadRowSkippedSilently ==
    \A k \in 1..Len(rows) :
        BadMandatoryField(rows[k]) =>
            /\ k \notin Range(all_predictions)
            /\ k \notin Range(rows_with_returns)
            /\ ~IngestRaisedAt(k)

\* C2: a row whose mandatory fields all parse raises nothing, is in
\* all_predictions once processed, and is in rows_with_returns exactly when
\* realized_ret_30s and realized_up_30s are both present, non-blank and parse.
C2_ResolvedIffBothOutcomesParse ==
    \A k \in 1..Len(rows) :
        ~BadMandatoryField(rows[k]) =>
            /\ ~IngestRaisedAt(k)
            /\ i >= k =>
                  /\ k \in Range(all_predictions)
                  /\ k \in Range(rows_with_returns) <=> BothOutcomesParse(rows[k])

\* a is b with some elements left out, the others in b's order
IsSubsequence(a, b) ==
    \E f \in [1..Len(a) -> 1..Len(b)] :
        /\ \A m, n \in 1..Len(a) : m < n => f[m] < f[n]
        /\ \A n \in 1..Len(a) : a[n] = b[f[n]]

\* the records of a list are in the order of the rows they were built from
InRowOrder(lst) == \A m, n \in 1..Len(lst) : m < n => lst[m] < lst[n]

\* C3: at every point of the ingest, and after it, rows_with_returns is a
\* subsequence of all_predictions and both lists are in original row order.
C3_ResolvedSubsequence ==
    /\ IsSubsequence(rows_with_returns, all_predictions)
    /\ InRowOrder(all_predictions)
    /\ InRowOrder(rows_with_returns)

\* C3's case: two rows ingested, both kept, only the second resolved.
C3_Witness ==
    /\ i = 2
    /\ all_predictions = <<1, 2>>
    /\ rows_with_returns = <<2>>

\* no row of the file becomes a parsed resolved prediction of either script
NoRowResolves ==
    \A k \in 1..Len(rows) :
        /\ ~TryRow(rows[k]).resolved
        /\ ~(/\ HasReturn(rows[k]).exc = "none"
             /\ HasReturn(rows[k]).v
             /\ TryPrediction(rows[k]).exc = "none")

\* C4: on a file of which no row becomes a parsed resolved prediction,
\* neither script is ended by an exception.
C4_NoResolvedRunsToCompletion == NoRowResolves => pcD # "raised" /\ pcP # "raised"

\* the resolved records the trading loop has consumed that give a signal
Signals ==
    {k \in 1..t :
        \/ pred[rows_with_returns[k]].p_fused_cal > LongThreshold
        \/ pred[rows_with_returns[k]].p_fused_cal < ShortThreshold}

\* C5: the trades are, in order, one per consumed resolved record whose
\* p_fused_cal is above 0.55 (long, gross return realized_ret) or below 0.45
\* (short, gross return -realized_ret), and none for a record from 0.45 to
\* 0.55; a trade's cost is spread / price and its net return is the gross
\* return less the cost.
C5_TradesFollowSignals ==
    /\ Len(trades) = Cardinality(Signals)
    /\ \A n \in 1..Len(trades) :
          LET rec == pred[rows_with_returns[Sorted(Signals)[n]]]
              tr == trades[n]
              net == NetReturns(trades)[n]
          IN /\ IF rec.p_fused_cal > LongThreshold
                THEN tr.direction = "long" /\ tr.return = rec.realized_ret
                ELSE tr.direction = "short" /\ tr.return = -rec.realized_ret
             /\ tr.spread_cost[1] * rec.price = rec.spread * tr.spread_cost[2]
             /\ net[1] * (Scale * rec.price)
                   = (tr.return * rec.price - Scale * rec.spread) * net[2]

\* C5's case: a record at 0.55 gave no trade and a record below 0.45 a short
\* trade.
C5_Witness ==
    /\ t = 2
    /\ pred[rows_with_returns[1]].p_fused_cal = LongThreshold
    /\ Len(trades) = 1
    /\ trades[1].direction = "short"

\* C6: with trades emitted, the trading summary is printed and no division
\* by zero ends it; its Sharpe ratio is 0 for one trade and mean / stdev of
\* the net returns for more.
C6_SharpeDefined ==
    (pcD \in {"regimes", "done", "raised"} /\ trades # <<>>
        /\ t = Len(rows_with_returns)) =>
        /\ pcD # "raised"
        /\ summary # <<>>
        /\ Len(trades) = 1 => summary.sharpe = [mean |-> <<0, 1>>, variance |-> <<1, 1>>]
        /\ Len(trades) > 1 => summary.sharpe.variance # <<0, 1>>

\* C7: a prediction whose p_fused_cal is in [0, 1] is in one of the bins
\* 0 .. NumBins - 1.
C7_BinIndexInRange ==
    \A b \in DOMAIN bins :
        \A n \in 1..Len(bins[b]) :
            (0 <= ppred[bins[b][n]].p_cal /\ ppred[bins[b][n]].p_cal <= Scale)
                => (0 <= b /\ b <= NumBins - 1)

\* the binning loop of analyze_predictions has run
Binned ==
    \/ pcP \in {"returns", "calibration", "rest", "done"} /\ predictions # <<>>
    \/ pcP = "raised" /\ excP.line = 66

\* the calibration table of analyze_predictions has been printed
Tabled == pcP \in {"rest", "done"} /\ predictions # <<>>

\* C8: every prediction is in exactly one bin, once; the printed bins have
\* counts that are not 0 and sum to the number of predictions, are the
\* sizes of their bins, and come in ascending order of bin index.
C8_BinsPartitionPredictions ==
    /\ Binned =>
          \A k \in Range(predictions) :
              /\ Cardinality({b \in DOMAIN bins : k \in Range(bins[b])}) = 1
              /\ \A b \in DOMAIN bins :
                    Cardinality({n \in 1..Len(bins[b]) : bins[b][n] = k}) <= 1
    /\ Tabled =>
          /\ SumOver([n \in 1..Len(calibration) |-> calibration[n].count],
                     1..Len(calibration)) = Len(predictions)
          /\ \A n \in 1..Len(calibration) :
                /\ calibration[n].count > 0
                /\ calibration[n].count = Len(bins[calibration[n].bin_idx])
          /\ \A m, n \in 1..Len(calibration) :
                m < n => calibration[m].bin_idx < calibration[n].bin_idx

\* C8's case: two predictions in two bins, the table printed with two lines.
C8_Witness ==
    /\ pcP = "done"
    /\ Len(predictions) = 2
    /\ Len(calibration) = 2

\* the regime a resolved record belongs to by its ofi
RegimeOf(ofi) ==
    IF ofi > HighThreshold THEN "High Buying"
    ELSE IF ofi < -HighThreshold THEN "High Selling"
    ELSE "Neutral"

\* C9: once the regime analysis has run, every resolved record is a member
\* of exactly one printed regime, the one its ofi gives (above 10 High
\* Buying, below -10 High Selling, from -10 to 10 Neutral), the counts sum
\* to the number of resolved records, and no regime without members is
\* printed.
C9_RegimesPartitionResolved ==
    pcD = "done" =>
        /\ \A k \in Range(rows_with_returns) :
              /\ Cardinality({n \in 1..Len(regimes) :
                     k \in Range(regimes[n].regime_data)}) = 1
              /\ \A n \in 1..Len(regimes) :
                    k \in Range(regimes[n].regime_data) =>
                        regimes[n].regime_name = RegimeOf(pred[k].ofi)
        /\ SumOver([n \in 1..Len(regimes) |-> regimes[n].n], 1..Len(regimes))
              = Len(rows_with_returns)
        /\ \A n \in 1..Len(regimes) :
              regimes[n].n > 0 /\ regimes[n].n = Len(regimes[n].regime_data)
        /\ \A m, n \in 1..Len(regimes) :
              m # n => regimes[m].regime_name # regimes[n].regime_name

\* C9's case: records with an ofi of exactly 10 and exactly -10, both
\* printed under Neutral.
C9_Witness ==
    /\ pcD = "done"
    /\ Len(rows_with_returns) = 2
    /\ {pred[k].ofi : k \in Range(rows_with_returns)} = {HighThreshold, -HighThreshold}
    /\ Len(regimes) = 1
    /\ regimes[1].regime_name = "Neutral"
    /\ regimes[1].n = 2

\* the parse loop of analyze_predictions has ended normally, or the script
\* returned before it for want of rows with a return
Parsed ==
    \/ pcP \in {"binning", "returns", "calibration", "rest", "done"}
    \/ pcP = "raised" /\ excP.line \in {46, 66}

\* C10: once both scripts have read the file, the rows in predictions of
\* analyze_predictions are the rows in rows_with_returns of
\* analyze_predictions_detailed.
C10_SameRowsAdmitted ==
    (Ingested /\ Parsed) => Range(predictions) = Range(rows_with_returns)

====
